---- MODULE Spec2Model ----
(***************************************************************************)
(* File-transfer client / server with a deliberate corruption step and a   *)
(* per-transfer record store (client/client.py, server/server.py).         *)
(*                                                                         *)
(* Byte strings are kept run-length encoded: a sequence of runs            *)
(* [b |-> byte value, n |-> repeat count], always in normal form (no empty *)
(* run, no two adjacent runs of the same byte), so that two values are     *)
(* equal exactly when the byte strings are equal and the real sizes of the *)
(* program (1024, 10 MiB, 50 MiB) can be used unscaled.                     *)
(***************************************************************************)
EXTENDS Integers, Sequences, FiniteSets, TLC

(* ---------------- bounds of the exploration ---------------- *)

MaxFiles == 2

MaxDirect == 2

\* rows of the record store explored under SpecAnalyzer
MaxRows == 4

\* turns of the while-loop of read_and_compress explored under SpecCodec
MaxChunks == 51

(* ---------------- program constants ---------------- *)

BUG_ENABLED == TRUE

\* random.random() is drawn in hundredths: 30 stands for 0.3
BUG_PROBABILITY == 30

LARGE_FILE_THRESHOLD == 10 * 1024 * 1024

CORRUPT_TAIL_BYTES == 1024

max_workers == 8

chunk_size == 1024 * 1024

(* ---------------- byte strings ---------------- *)

Run(b, n) == [b |-> b, n |-> n]

RECURSIVE Norm(_)
Norm(bs) ==
  IF bs = <<>> THEN <<>>
  ELSE LET h == Head(bs)
           t == Norm(Tail(bs))
       IN IF h.n = 0 THEN t
          ELSE IF t # <<>> /\ Head(t).b = h.b
               THEN <<Run(h.b, h.n + Head(t).n)>> \o Tail(t)
               ELSE <<h>> \o t

RECURSIVE len(_)
len(bs) == IF bs = <<>> THEN 0 ELSE Head(bs).n + len(Tail(bs))

Concat(x, y) == Norm(x \o y)

\* bs[:k]
RECURSIVE Take(_, _)
Take(bs, k) ==
  IF k <= 0 \/ bs = <<>> THEN <<>>
  ELSE IF Head(bs).n <= k
       THEN <<Head(bs)>> \o Take(Tail(bs), k - Head(bs).n)
       ELSE <<Run(Head(bs).b, k)>>

\* bs[k:]
RECURSIVE Drop(_, _)
Drop(bs, k) ==
  IF bs = <<>> THEN <<>>
  ELSE IF k <= 0 THEN bs
  ELSE IF Head(bs).n <= k
       THEN Drop(Tail(bs), k - Head(bs).n)
       ELSE <<Run(Head(bs).b, Head(bs).n - k)>> \o Tail(bs)

\* b"\x00" * k
Zeros(k) == IF k <= 0 THEN <<>> ELSE <<Run(0, k)>>

\* bs[-k:], for k > 0
Tail_(bs, k) == IF k >= len(bs) THEN bs ELSE Drop(bs, len(bs) - k)

\* corrupted[-k:] = b"\x00" * k ; slice assignment on a bytearray
ZeroTail(bs, k) ==
  LET cut == IF k >= len(bs) THEN 0 ELSE len(bs) - k
  IN Concat(Take(bs, cut), Zeros(k))

(* ---------------- SHA-256 ---------------- *)

\* hashlib.sha256(): the hash object absorbs the bytes fed to it, in order,
\* whatever the boundaries between the updates
sha_new == <<>>

\* variant: the digest object is made anew for each chunk
sha_update_last(sha, chunk) == chunk

\* sha.update(chunk): the digest is that of the bytes fed so far
sha_update(sha, chunk) == Concat(sha, chunk)

\* hexdigest(): a 64-character lower-case hex string.  The digest is
\* modelled collision-free: it identifies the byte string it was taken of.
hexdigest(sha) == [chars |-> 64, upper |-> FALSE, of |-> Norm(sha)]

sha256_hex(bs) == hexdigest(sha_update(sha_new, bs))

\* the empty string ""
EmptyStr == [chars |-> 0, upper |-> FALSE, of |-> <<>>]

\* the same hex digits written in upper case
Upper(s) == [s EXCEPT !.upper = (s.chars > 0)]

(* ---------------- gzip ---------------- *)

\* CRC-32 of the gzip trailer: a short check value, not collision-free
\* (folded to 16 bits here; every size explored is far below 2^32)
RECURSIVE crc32(_)
crc32(bs) ==
  IF bs = <<>> THEN 0
  ELSE ((Head(bs).b * Head(bs).n) + crc32(Tail(bs))) % 65521

\* compressobj(wbits = 16 + MAX_WBITS): header written, nothing fed yet
compressobj == [blocks |-> <<>>, fed |-> <<>>]

\* compressor.compress(chunk): DEFLATE is modelled as run-length coding; the
\* stream carries on across chunk boundaries (a run goes on into the next
\* chunk), and the trailer values are accumulated over the bytes fed
compress(c, chunk) ==
  [blocks |-> Concat(c.blocks, chunk), fed |-> Concat(c.fed, chunk)]

\* compressor.flush(): the assembled gzip stream (header, blocks, trailer)
flush(c) ==
  [magic |-> "gzip", blocks |-> c.blocks, trailer |-> TRUE,
   crc |-> crc32(c.fed), isize |-> len(c.fed)]

\* len(compressed): 10 header bytes, 3 per block, 8 trailer bytes
body_len(body) ==
  (IF body.magic = "gzip" THEN 10 ELSE 4)
  + 3 * Len(body.blocks) + (IF body.trailer THEN 8 ELSE 0)

\* zlib.decompress(body, wbits = 16 + MAX_WBITS)
decompress(body) ==
  LET data == Norm(body.blocks)
  IN IF body.magic # "gzip"
     THEN [ok |-> FALSE, data |-> <<>>, err |-> "incorrect header check"]
     ELSE IF ~body.trailer
     THEN [ok |-> FALSE, data |-> <<>>, err |-> "incomplete or truncated stream"]
     ELSE IF body.crc # crc32(data)
     THEN [ok |-> FALSE, data |-> <<>>, err |-> "incorrect data check"]
     ELSE IF body.isize # len(data)
     THEN [ok |-> FALSE, data |-> <<>>, err |-> "incorrect length check"]
     ELSE [ok |-> TRUE, data |-> data, err |-> ""]

(* ---------------- client: StreamCodec ---------------- *)

\* compressed_size / original_size if original_size > 0 else 1.0
Ratio(compressed_size, original_size) ==
  IF original_size > 0 THEN [num |-> compressed_size, den |-> original_size]
  ELSE [num |-> 1, den |-> 1]

\* f.read(chunk_size) with the file position at pos; b"" at the end
read(data, pos, cs) == Take(Drop(data, pos), cs)

\* one turn of the while-loop of read_and_compress
loop_body(st, chunk) ==
  [sha |-> sha_update(st.sha, chunk),
   compressor |-> compress(st.compressor, chunk),
   original_size |-> st.original_size + len(chunk),
   chunk_count |-> st.chunk_count + 1]

\* the while-loop of read_and_compress; the file position is the number of
\* bytes read so far
RECURSIVE read_loop(_, _, _)
read_loop(data, cs, st) ==
  LET chunk == read(data, st.original_size, cs)
  IN IF chunk = <<>> THEN st
     ELSE read_loop(data, cs, loop_body(st, chunk))

read_and_compress(data, cs) ==
  LET st == read_loop(data, cs,
              [sha |-> sha_new, compressor |-> compressobj,
               original_size |-> 0, chunk_count |-> 0])
      compressed == flush(st.compressor)
  IN [compressed |-> compressed,
      checksum |-> hexdigest(st.sha),
      original_size |-> st.original_size,
      compressed_size |-> body_len(compressed),
      compression_ratio |-> Ratio(body_len(compressed), st.original_size),
      chunk_count |-> st.chunk_count]

(* ---------------- inputs ---------------- *)

\* files that may lie in client_files/, listed in ascending order of name
Catalog ==
  << [name |-> "a_empty.bin",  data |-> <<>>],
     [name |-> "b_small.bin",  data |-> <<Run(1, 500)>>],
     [name |-> "c_medium.bin", data |-> <<Run(1, 100 * 1024)>>],
     [name |-> "d_limit.bin",  data |-> <<Run(1, LARGE_FILE_THRESHOLD)>>],
     [name |-> "e_large.bin",  data |-> <<Run(1, LARGE_FILE_THRESHOLD + 1)>>],
     [name |-> "f_ztail.bin",
      data |-> <<Run(1, LARGE_FILE_THRESHOLD), Run(0, CORRUPT_TAIL_BYTES)>>],
     [name |-> "g_huge.bin",   data |-> <<Run(1, 50 * 1024 * 1024 + 1)>>] >>

\* sorted(CLIENT_DIR.iterdir()): the entries in ascending order of name
RECURSIVE sorted(_)
sorted(S) ==
  IF S = {} THEN <<>>
  ELSE LET m == CHOOSE i \in S : \A j \in S : i <= j
       IN <<Catalog[m]>> \o sorted(S \ {m})

Directories ==
  { sorted(S) : S \in { T \in SUBSET (1..Len(Catalog)) : Cardinality(T) <= MaxFiles } }

\* values random.random() returns, in hundredths
Draws == {0, 29, 30, 99}

\* elapsed time of one upload call, in units of 0.0001 ms
Elapsed == {500000, 2500005}

\* a request body damaged on the way: the stream ends early
Truncated(body) ==
  [body EXCEPT !.blocks = SubSeq(body.blocks, 1, Len(body.blocks) - 1),
               !.trailer = FALSE]

\* what client.py sends for a file of the given name and content
faithful(name, data) ==
  LET loc == read_and_compress(data, chunk_size)
  IN [params |-> [filename |-> name, checksum |-> loc.checksum,
                  compression_ratio |-> loc.compression_ratio],
      body |-> loc.compressed]

\* requests of callers other than client.py: well-formed uploads (two of them
\* under the same file name) and malformed ones
DirectRequests ==
  LET x == faithful("up.bin", Catalog[5].data)
      z == faithful("up.bin", Catalog[6].data)
  IN { x, z,
       faithful(Catalog[2].name, Catalog[2].data),
       faithful(Catalog[4].name, Catalog[4].data),
       [params |-> [checksum |-> x.params.checksum], body |-> x.body],
       [params |-> [filename |-> "", checksum |-> x.params.checksum],
        body |-> x.body],
       [params |-> [filename |-> "up.bin"], body |-> Truncated(x.body)],
       [params |-> [filename |-> "up.bin", checksum |-> EmptyStr],
        body |-> x.body],
       [params |-> [filename |-> "up.bin",
                    checksum |-> Upper(x.params.checksum)], body |-> x.body],
       [params |-> [filename |-> "up.bin", checksum |-> x.params.checksum],
        body |-> z.body],
       [x EXCEPT !.body = Truncated(x.body)],
       [x EXCEPT !.body.magic = "junk"],
       [x EXCEPT !.body.crc = (x.body.crc + 1) % 65521] }

FileNames == { Catalog[i].name : i \in 1..Len(Catalog) } \cup {"up.bin"}

(* ---------------- state ---------------- *)

VARIABLES
  files,      \* main: the sorted listing of client_files/
  cidx,       \* main: position of the for-loop in files
  cpc,        \* client: "loop", "compressed", "posted", "done", "crashed"
  cloc,       \* send_file: the tuple returned by read_and_compress
  creq,       \* send_file: the request awaiting its response (0: none)
  requests,   \* requests received by the server, in order of arrival
  handler,    \* upload_file: one activation per request
  futures,    \* executor: the save_bytes_task submitted for each request
  disk,       \* server_files/: file name -> content
  sd_csv,     \* sd/sd_data.csv
  analysis    \* analyze_sd.py: the outcome of its latest run

vars == <<files, cidx, cpc, cloc, creq, requests, handler, futures, disk, sd_csv, analysis>>

NoLoc == [compressed |-> [magic |-> "", blocks |-> <<>>, trailer |-> FALSE,
                          crc |-> 0, isize |-> 0],
          checksum |-> EmptyStr, original_size |-> 0, compressed_size |-> 0,
          compression_ratio |-> [num |-> 1, den |-> 1], chunk_count |-> 0]

NoResult == [status |-> "none"]

NoFuture == [state |-> "none", data |-> <<>>, dest |-> ""]

NoFile == [exists |-> FALSE, data |-> <<>>]

\* analyze_sd.py has not been run
NoAnalysis ==
  [pc |-> "idle", rows |-> <<>>, baseline |-> [none |-> TRUE],
   ranked |-> <<>>, scanned |-> FALSE]

\* an activation of upload_file that has not run yet
NewHandler ==
  [pc |-> "start",
   body_read |-> FALSE,          \* request.body() was awaited
   decompress_called |-> FALSE,  \* zlib.decompress was called
   random_called |-> FALSE,      \* random.random() was called
   sha_called |-> FALSE,         \* hashlib.sha256 was computed
   original_data |-> <<>>,       \* the variable original_data
   original_size |-> 0,
   is_large_file |-> FALSE,
   bug_triggered |-> FALSE,
   result |-> NoResult]

Init ==
  /\ files \in Directories
  /\ cidx = 1
  /\ cpc = "loop"
  /\ cloc = NoLoc
  /\ creq = 0
  /\ requests = <<>>
  /\ handler = <<>>
  /\ futures = <<>>
  /\ disk = [f \in FileNames |-> NoFile]
  /\ sd_csv = [exists |-> FALSE, lines |-> <<>>]
  /\ analysis = NoAnalysis

(* ---------------- server: upload_file ---------------- *)

\* params.get(k)
Has(params, k) == k \in DOMAIN params

NoneVal == [none |-> TRUE]

\* variant: only an absent parameter counts ("is None"), an empty one passes
missing_metadata_none_only(params) ==
  ~Has(params, "filename") \/ ~Has(params, "checksum")

\* not filename or not checksum
missing_metadata(params) ==
  \/ ~Has(params, "filename") \/ params.filename = ""
  \/ ~Has(params, "checksum") \/ params.checksum.chars = 0

\* upload_file up to "await request.body()"
upload_start(h, params) ==
  IF missing_metadata(params)
  THEN [h EXCEPT !.pc = "returned",
                 !.result = [status |-> "error",
                             reason |-> <<"missing filename or checksum">>]]
  ELSE [h EXCEPT !.pc = "await_body"]

\* original_data = zlib.decompress(compressed_body, ...), with the except branch
step_decompress(h, body) ==
  LET d == decompress(body)
  IN IF d.ok
     THEN [h EXCEPT !.body_read = TRUE, !.decompress_called = TRUE,
                    !.original_data = d.data,
                    !.original_size = len(d.data)]
     ELSE [h EXCEPT !.body_read = TRUE, !.decompress_called = TRUE,
                    !.pc = "returned",
                    !.result = [status |-> "error",
                                reason |-> <<"decompression_failed", d.err>>]]

\* variant: the except branch does not return
proceeds_always(h) == TRUE

\* the handler goes on after the try/except unless the except branch returned
proceeds(h) == h.result.status # "error"

\* variant: the threshold itself counts as large
is_large_ge(original_size) == original_size >= LARGE_FILE_THRESHOLD

is_large(original_size) == original_size > LARGE_FILE_THRESHOLD

\* variant: corrupted[:CORRUPT_TAIL_BYTES] is zeroed, the head
corrupt_head(data) ==
  IF len(data) >= CORRUPT_TAIL_BYTES
  THEN Concat(Zeros(CORRUPT_TAIL_BYTES), Drop(data, CORRUPT_TAIL_BYTES))
  ELSE data

\* variant: the slice starts one byte early, corrupted[-(L + 1):]
corrupt_one_more(data) ==
  IF len(data) >= CORRUPT_TAIL_BYTES THEN ZeroTail(data, CORRUPT_TAIL_BYTES + 1)
  ELSE data

\* if original_size >= CORRUPT_TAIL_BYTES: zero the tail
corrupt(data) ==
  IF len(data) >= CORRUPT_TAIL_BYTES THEN ZeroTail(data, CORRUPT_TAIL_BYTES)
  ELSE data

\* variant: bug_triggered is set for every large file, the overwrite stays
\* behind the random draw
step_oracle_flag_large(h, draw) ==
  LET large == is_large(h.original_size)
      drawn == BUG_ENABLED /\ large
      trig  == drawn /\ draw < BUG_PROBABILITY
  IN [h EXCEPT !.is_large_file = large,
               !.random_called = drawn,
               !.bug_triggered = drawn,
               !.original_data = IF trig THEN corrupt(h.original_data)
                                 ELSE h.original_data]

\* variant: the test of is_large_file is left out of the condition
step_oracle_any_size(h, draw) ==
  LET large == is_large(h.original_size)
      drawn == BUG_ENABLED
      trig  == drawn /\ draw < BUG_PROBABILITY
  IN [h EXCEPT !.is_large_file = large,
               !.random_called = drawn,
               !.bug_triggered = trig,
               !.original_data = IF trig THEN corrupt(h.original_data)
                                 ELSE h.original_data]

\* if BUG_ENABLED and is_large_file and random.random() < BUG_PROBABILITY
step_oracle(h, draw) ==
  LET large == is_large(h.original_size)
      drawn == BUG_ENABLED /\ large
      trig  == drawn /\ draw < BUG_PROBABILITY
  IN [h EXCEPT !.is_large_file = large,
               !.random_called = drawn,
               !.bug_triggered = trig,
               !.original_data = IF trig THEN corrupt(h.original_data)
                                 ELSE h.original_data]

\* the bytes handed to sha.update
digest_input(h) == h.original_data

\* server_checksum and checksum_ok, then the result dictionary
step_verify(h, params, body) ==
  LET server_checksum == sha256_hex(digest_input(h))
      checksum_ok == (server_checksum = params.checksum)
  IN [h EXCEPT !.sha_called = TRUE,
               !.pc = "returned",
               !.result =
                 [status |-> "ok",
                  filename |-> params.filename,
                  checksum_ok |-> checksum_ok,
                  server_checksum |-> server_checksum,
                  compression_ratio |->
                    IF Has(params, "compression_ratio")
                    THEN params.compression_ratio ELSE NoneVal,
                  original_size |-> h.original_size,
                  compressed_size |-> body_len(body),
                  is_large_file |-> h.is_large_file,
                  bug_triggered |-> h.bug_triggered]]

\* executor.submit(save_bytes_task, original_data, dest_path)
submit(h, params) ==
  [state |-> "pending", data |-> h.original_data, dest |-> params.filename]

\* variant: the digest is taken before the corruption step
upload_body_verify_first(h, req, draw) ==
  LET h1 == step_decompress(h, req.body)
  IN IF ~proceeds(h1) THEN [h |-> h1, future |-> NoFuture]
     ELSE LET hv == step_verify(step_oracle(h1, 99), req.params, req.body)
              h2 == step_oracle(h1, draw)
              h3 == [h2 EXCEPT !.sha_called = TRUE, !.pc = "returned",
                               !.result = [hv.result EXCEPT
                                  !.bug_triggered = h2.bug_triggered]]
          IN [h |-> h3, future |-> submit(h2, req.params)]

\* upload_file from "await request.body()" to its return
upload_body(h, req, draw) ==
  LET h1 == step_decompress(h, req.body)
  IN IF ~proceeds(h1) THEN [h |-> h1, future |-> NoFuture]
     ELSE LET h2 == step_oracle(h1, draw)
              h3 == step_verify(h2, req.params, req.body)
          IN [h |-> h3, future |-> submit(h2, req.params)]

(* ---------------- server: save_bytes_task ---------------- *)

\* dest_path.open("wb"): the file is created or truncated
open_wb(d, dest) == [d EXCEPT ![dest] = [exists |-> TRUE, data |-> <<>>]]

\* f.write(data) through a descriptor opened at offset 0: the bytes already in
\* the file beyond len(data) (written through another descriptor) stay
write_at0(d, dest, data) ==
  [d EXCEPT ![dest] = [exists |-> TRUE,
                       data |-> Concat(data, Drop(d[dest].data, len(data)))]]

Running == { r \in 1..Len(futures) : futures[r].state = "running" }

(* ---------------- client: PredicateRecorder ---------------- *)

Header ==
  [kind |-> "header",
   cells |-> <<"file_name", "original_size", "compressed_size",
               "compression_ratio", "latency_ms", "is_large_file",
               "bug_triggered", "checksum_ok", "failed">>]

\* int(b) for a bool b
int(b) == IF b THEN 1 ELSE 0

\* round(latency_ms, 3): from units of 0.0001 ms to units of 0.001 ms,
\* halves to the even neighbour
round3(x) ==
  LET q == x \div 10
      r == x % 10
  IN IF r > 5 \/ (r = 5 /\ q % 2 = 1) THEN q + 1 ELSE q

\* variant: the negation is lost
failed_of_same(checksum_ok) == checksum_ok

\* failed = not checksum_ok
failed_of(checksum_ok) == ~checksum_ok

\* variant: the header is written by every call
append_sd_row_header_always(csv, file_name, original_size, compressed_size, compression_ratio, latency_ms, is_large_file, bug_triggered, checksum_ok) ==
  LET failed == failed_of(checksum_ok)
      row == [kind |-> "data",
              cells |-> [file_name |-> file_name,
                         original_size |-> original_size,
                         compressed_size |-> compressed_size,
                         compression_ratio |-> compression_ratio,
                         latency_ms |-> round3(latency_ms),
                         is_large_file |-> int(is_large_file),
                         bug_triggered |-> int(bug_triggered),
                         checksum_ok |-> int(checksum_ok),
                         failed |-> int(failed)]]
  IN [exists |-> TRUE, lines |-> csv.lines \o <<Header>> \o <<row>>]

append_sd_row(csv, file_name, original_size, compressed_size, compression_ratio, latency_ms, is_large_file, bug_triggered, checksum_ok) ==
  LET file_exists == csv.exists
      head == IF ~file_exists THEN <<Header>> ELSE <<>>
      failed == failed_of(checksum_ok)
      row == [kind |-> "data",
              cells |-> [file_name |-> file_name,
                         original_size |-> original_size,
                         compressed_size |-> compressed_size,
                         compression_ratio |-> compression_ratio,
                         latency_ms |-> round3(latency_ms),
                         is_large_file |-> int(is_large_file),
                         bug_triggered |-> int(bug_triggered),
                         checksum_ok |-> int(checksum_ok),
                         failed |-> int(failed)]]
  IN [exists |-> TRUE, lines |-> csv.lines \o head \o <<row>>]

\* resp_json.get(k, default)
get(resp_json, k, default) ==
  IF k \in DOMAIN resp_json THEN resp_json[k] ELSE default

\* send_file after response.json(): lines 199-217
record_response(csv, name, loc, resp_json, elapsed) ==
  append_sd_row(csv, name, loc.original_size, loc.compressed_size,
                loc.compression_ratio, elapsed,
                get(resp_json, "is_large_file", FALSE),
                get(resp_json, "bug_triggered", FALSE),
                get(resp_json, "checksum_ok", TRUE))

\* variant: the handler waits for executor_future.result()
response_ready_after_write(h, fut) ==
  h.pc = "returned" /\ (h.result.status = "ok" => fut.state = "done")

\* variant: the client does not wait for the response
response_ready_at_once(h, fut) == TRUE

\* the response of request r can be read by its caller
response_ready(h, fut) == h.pc = "returned"

(* ---------------- analyzer: analyze_sd.py ---------------- *)

\* a float that is the quotient of two counts is kept as the exact fraction
\* num / den (den > 0); for the counts explored here the order and the
\* equality of the floats are those of the fractions
Rat(n, d) == [num |-> n, den |-> d]

RatLess(x, y) == x.num * y.den < y.num * x.den

RatEq(x, y) == x.num * y.den = y.num * x.den

RatSub(x, y) == Rat(x.num * y.den - y.num * x.den, x.den * y.den)

\* the column of a written line that stands at position j
cell_at(line, j) ==
  IF line.kind = "header" THEN line.cells[j] ELSE line.cells[Header.cells[j]]

\* csv.DictReader: each line after the first becomes a dictionary from the
\* names in the first line to the cells at the same positions; int() and
\* float() read back the numbers that str() wrote
dict_row(fieldnames, line) ==
  [k \in { fieldnames[j] : j \in 1..Len(fieldnames) } |->
     cell_at(line, CHOOSE j \in 1..Len(fieldnames) : fieldnames[j] = k)]

\* load_sd_data: FileNotFoundError when the file is absent
load_sd_data(csv) ==
  IF ~csv.exists THEN [raised |-> TRUE, rows |-> <<>>]
  ELSE IF csv.lines = <<>> THEN [raised |-> FALSE, rows |-> <<>>]
  ELSE [raised |-> FALSE,
        rows |-> [i \in 1..(Len(csv.lines) - 1) |->
                    dict_row(csv.lines[1].cells, csv.lines[i + 1])]]

\* sum(r["failed"] for r in rows)
RECURSIVE sum_failed(_)
sum_failed(rows) ==
  IF rows = <<>> THEN 0 ELSE Head(rows).failed + sum_failed(Tail(rows))

compute_baseline(rows) ==
  LET total_runs == Len(rows)
      total_failed == sum_failed(rows)
  IN [total_runs |-> total_runs,
      total_failed |-> total_failed,
      total_passed |-> total_runs - total_failed,
      baseline_failure_rate |->
        IF total_runs > 0 THEN Rat(total_failed, total_runs) ELSE Rat(0, 1)]

\* variant: P3 loses its negation
define_predicates_p3_plain(row) ==
  << [name |-> "P1_is_large_file", value |-> row.is_large_file # 0],
     [name |-> "P2_bug_triggered", value |-> row.bug_triggered # 0],
     [name |-> "P3_checksum_failed", value |-> row.checksum_ok # 0],
     [name |-> "P4_high_latency", value |-> row.latency_ms > 200000],
     [name |-> "P5_high_compression_ratio",
      value |-> row.compression_ratio.num * 5 > row.compression_ratio.den * 4],
     [name |-> "P6_very_large_file",
      value |-> row.original_size > 50 * 1024 * 1024],
     [name |-> "P7_small_file", value |-> row.original_size < 100 * 1024],
     [name |-> "P8_medium_file",
      value |-> 100 * 1024 <= row.original_size
                /\ row.original_size <= 10 * 1024 * 1024] >>

\* define_predicates: the dictionary preds, in insertion order
define_predicates(row) ==
  << [name |-> "P1_is_large_file", value |-> row.is_large_file # 0],
     [name |-> "P2_bug_triggered", value |-> row.bug_triggered # 0],
     [name |-> "P3_checksum_failed", value |-> ~(row.checksum_ok # 0)],
     [name |-> "P4_high_latency", value |-> row.latency_ms > 200000],
     [name |-> "P5_high_compression_ratio",
      value |-> row.compression_ratio.num * 5 > row.compression_ratio.den * 4],
     [name |-> "P6_very_large_file",
      value |-> row.original_size > 50 * 1024 * 1024],
     [name |-> "P7_small_file", value |-> row.original_size < 100 * 1024],
     [name |-> "P8_medium_file",
      value |-> 100 * 1024 <= row.original_size
                /\ row.original_size <= 10 * 1024 * 1024] >>

\* s = stats[name]; s["support"] += 1; ...: stats is kept as the list of its
\* entries in the order in which the names were first looked up
count_pred(stats, name, failed) ==
  LET at == { i \in 1..Len(stats) : stats[i].name = name }
      upd(e) == [e EXCEPT !.support = e.support + 1,
                          !.failed_P = e.failed_P + (IF failed THEN 1 ELSE 0),
                          !.passed_P = e.passed_P + (IF failed THEN 0 ELSE 1)]
      fresh == [name |-> name, failed_P |-> 0, passed_P |-> 0, support |-> 0]
  IN IF at = {} THEN Append(stats, upd(fresh))
     ELSE [i \in 1..Len(stats) |-> IF i \in at THEN upd(stats[i]) ELSE stats[i]]

\* for name, value in preds.items(): if not value: continue ...
RECURSIVE count_preds(_, _, _)
count_preds(stats, preds, failed) ==
  IF preds = <<>> THEN stats
  ELSE count_preds(
         IF Head(preds).value THEN count_pred(stats, Head(preds).name, failed)
         ELSE stats,
         Tail(preds), failed)

\* for row in rows: ...
RECURSIVE scan_rows(_, _)
scan_rows(stats, rows) ==
  IF rows = <<>> THEN stats
  ELSE scan_rows(count_preds(stats, define_predicates(Head(rows)),
                             Head(rows).failed # 0),
                 Tail(rows))

\* variant: Increase(P) is taken as Failure(P) minus the baseline rate
score_increase_from_failure(s, baseline) ==
  LET failure_P == IF baseline.total_failed > 0
                   THEN Rat(s.failed_P, baseline.total_failed) ELSE Rat(0, 1)
  IN [name |-> s.name, failed_P |-> s.failed_P, passed_P |-> s.passed_P,
      support |-> s.support, failure_P |-> failure_P,
      increase |-> RatSub(failure_P, baseline.baseline_failure_rate)]

\* Failure(P) and Increase(P) of one entry of stats
score(s, baseline) ==
  LET failure_P == IF baseline.total_failed > 0
                   THEN Rat(s.failed_P, baseline.total_failed) ELSE Rat(0, 1)
      failure_rate_when_P == IF s.support > 0
                             THEN Rat(s.failed_P, s.support) ELSE Rat(0, 1)
  IN [name |-> s.name, failed_P |-> s.failed_P, passed_P |-> s.passed_P,
      support |-> s.support, failure_P |-> failure_P,
      increase |-> RatSub(failure_rate_when_P, baseline.baseline_failure_rate)]

\* variant: the sort key is (r["failure_P"], r["increase"])
key_less_failure_first(x, y) ==
  \/ RatLess(x.failure_P, y.failure_P)
  \/ (RatEq(x.failure_P, y.failure_P) /\ RatLess(x.increase, y.increase))

\* the sort key (r["increase"], r["failure_P"]) of x is below that of y
key_less(x, y) ==
  \/ RatLess(x.increase, y.increase)
  \/ (RatEq(x.increase, y.increase) /\ RatLess(x.failure_P, y.failure_P))

\* e goes before the first entry of done whose key is below the key of e
place(done, e, before) ==
  LET k == IF before = {} THEN Len(done) + 1
           ELSE CHOOSE i \in before : \A j \in before : i <= j
  IN SubSeq(done, 1, k - 1) \o <<e>> \o SubSeq(done, k, Len(done))

\* variant: an entry goes before the entries of equal key (not stable)
insert_desc_before_equal(done, e) ==
  place(done, e, { i \in 1..Len(done) : ~key_less(e, done[i]) })

\* one step of the stable descending sort: e, which came later in result,
\* goes after the entries of equal key
insert_desc(done, e) ==
  place(done, e, { i \in 1..Len(done) : key_less(done[i], e) })

\* result.sort(key = ..., reverse = True): descending and stable
RECURSIVE sort_desc(_, _)
sort_desc(done, todo) ==
  IF todo = <<>> THEN done
  ELSE sort_desc(insert_desc(done, Head(todo)), Tail(todo))

\* analyze_predicates: None (no scan) when there is no row
analyze_predicates(rows, baseline) ==
  IF baseline.total_runs = 0
  THEN [none |-> TRUE, scanned |-> FALSE, ranked |-> <<>>]
  ELSE LET stats == scan_rows(<<>>, rows)
           result == [i \in 1..Len(stats) |-> score(stats[i], baseline)]
       IN [none |-> FALSE, scanned |-> TRUE, ranked |-> sort_desc(<<>>, result)]

\* main of analyze_sd.py
analyze_main(csv) ==
  LET loaded == load_sd_data(csv)
      baseline == compute_baseline(loaded.rows)
      preds == analyze_predicates(loaded.rows, baseline)
  IN IF loaded.raised
     THEN [pc |-> "raised", rows |-> <<>>, baseline |-> [none |-> TRUE],
           ranked |-> <<>>, scanned |-> FALSE]
     ELSE [pc |-> "done", rows |-> loaded.rows, baseline |-> baseline,
           ranked |-> preds.ranked, scanned |-> preds.scanned]

(* ---------------- actions ---------------- *)

\* main: the next file of the loop; send_file: read_and_compress
ClientCompress ==
  /\ cpc = "loop" /\ cidx <= Len(files)
  /\ cloc' = read_and_compress(files[cidx].data, chunk_size)
  /\ cpc' = "compressed"
  /\ UNCHANGED <<files, cidx, creq, requests, handler, futures, disk, sd_csv, analysis>>

\* main: the loop has run out of files
ClientDone ==
  /\ cpc = "loop" /\ cidx > Len(files)
  /\ cpc' = "done"
  /\ UNCHANGED <<files, cidx, cloc, creq, requests, handler, futures, disk, sd_csv, analysis>>

\* send_file: httpx.post; the body reaches the server as sent, or cut short
ClientPost ==
  /\ cpc = "compressed"
  /\ \E intact \in BOOLEAN :
       requests' = Append(requests,
         [params |-> [filename |-> files[cidx].name,
                      checksum |-> cloc.checksum,
                      compression_ratio |-> cloc.compression_ratio],
          body |-> IF intact THEN cloc.compressed ELSE Truncated(cloc.compressed),
          src |-> "client",
          intact |-> intact])
  /\ handler' = Append(handler, NewHandler)
  /\ futures' = Append(futures, NoFuture)
  /\ creq' = Len(requests) + 1
  /\ cpc' = "posted"
  /\ UNCHANGED <<files, cidx, cloc, disk, sd_csv, analysis>>

\* send_file: the response arrived with status 200; the row is appended
ClientReceive ==
  /\ cpc = "posted"
  /\ response_ready(handler[creq], futures[creq])
  /\ \E elapsed \in Elapsed :
       sd_csv' = record_response(sd_csv, files[cidx].name, cloc,
                                 handler[creq].result, elapsed)
  /\ cidx' = cidx + 1
  /\ cpc' = "loop"
  /\ creq' = 0
  /\ cloc' = NoLoc
  /\ UNCHANGED <<files, requests, handler, futures, disk, analysis>>

\* variant: the failed call is made again
ClientFail_retry ==
  /\ cpc = "posted"
  /\ cpc' = "compressed"
  /\ creq' = 0
  /\ UNCHANGED <<files, cidx, cloc, requests, handler, futures, disk, sd_csv, analysis>>

\* send_file: httpx.post raises (transport error, timeout) or
\* raise_for_status raises; the exception ends main
ClientFail ==
  /\ cpc = "posted"
  /\ cpc' = "crashed"
  /\ creq' = 0
  /\ UNCHANGED <<files, cidx, cloc, requests, handler, futures, disk, sd_csv, analysis>>

\* a request of another caller arrives
DirectRequest ==
  /\ Cardinality({ r \in 1..Len(requests) : requests[r].src = "direct" }) < MaxDirect
  /\ \E rq \in DirectRequests :
       requests' = Append(requests,
         [params |-> rq.params, body |-> rq.body, src |-> "direct",
          intact |-> TRUE])
  /\ handler' = Append(handler, NewHandler)
  /\ futures' = Append(futures, NoFuture)
  /\ UNCHANGED <<files, cidx, cpc, cloc, creq, disk, sd_csv, analysis>>

\* upload_file, lines 73-95
HandleStart(r) ==
  /\ handler[r].pc = "start"
  /\ handler' = [handler EXCEPT ![r] = upload_start(handler[r], requests[r].params)]
  /\ UNCHANGED <<files, cidx, cpc, cloc, creq, requests, futures, disk, sd_csv, analysis>>

\* upload_file, lines 96-177
HandleBody(r) ==
  /\ handler[r].pc = "await_body"
  /\ \E draw \in Draws :
       LET out == upload_body(handler[r], requests[r], draw)
       IN /\ handler' = [handler EXCEPT ![r] = out.h]
          /\ futures' = [futures EXCEPT ![r] = out.future]
  /\ UNCHANGED <<files, cidx, cpc, cloc, creq, requests, disk, sd_csv, analysis>>

\* a worker thread starts save_bytes_task: dest_path.open("wb")
TaskOpen(r) ==
  /\ futures[r].state = "pending"
  /\ Cardinality(Running) < max_workers
  /\ futures' = [futures EXCEPT ![r].state = "running"]
  /\ disk' = open_wb(disk, futures[r].dest)
  /\ UNCHANGED <<files, cidx, cpc, cloc, creq, requests, handler, sd_csv, analysis>>

\* save_bytes_task: f.write(data), and the file is closed
TaskWrite(r) ==
  /\ futures[r].state = "running"
  /\ futures' = [futures EXCEPT ![r].state = "done"]
  /\ disk' = write_at0(disk, futures[r].dest, futures[r].data)
  /\ UNCHANGED <<files, cidx, cpc, cloc, creq, requests, handler, sd_csv, analysis>>

\* variant: the failure of the write replaces the result of the request
TaskFail_surfaces(r) ==
  /\ futures[r].state \in {"pending", "running"}
  /\ futures' = [futures EXCEPT ![r].state = "failed"]
  /\ handler' = [handler EXCEPT ![r].result =
                   [status |-> "error", reason |-> <<"write_failed">>]]
  /\ UNCHANGED <<files, cidx, cpc, cloc, creq, requests, disk, sd_csv, analysis>>

\* save_bytes_task raises OSError (open or write fails); the exception stays
\* in the future, which nobody reads
TaskFail(r) ==
  /\ futures[r].state \in {"pending", "running"}
  /\ futures' = [futures EXCEPT ![r].state = "failed"]
  /\ UNCHANGED <<files, cidx, cpc, cloc, creq, requests, handler, disk, sd_csv, analysis>>

Handle == \E r \in 1..Len(requests) : HandleStart(r) \/ HandleBody(r)

Task == \E r \in 1..Len(requests) : TaskOpen(r) \/ TaskWrite(r) \/ TaskFail(r)

\* client.py running against the server
Next ==
  \/ ClientCompress
  \/ ClientDone
  \/ ClientPost
  \/ ClientReceive
  \/ ClientFail
  \/ Handle
  \/ Task

Spec == Init /\ [][Next]_vars

\* the server alone, under requests of arbitrary callers
InitServer ==
  /\ files = <<>>
  /\ cidx = 1
  /\ cpc = "done"
  /\ cloc = NoLoc
  /\ creq = 0
  /\ requests = <<>>
  /\ handler = <<>>
  /\ futures = <<>>
  /\ disk = [f \in FileNames |-> NoFile]
  /\ sd_csv = [exists |-> FALSE, lines |-> <<>>]
  /\ analysis = NoAnalysis

NextServer ==
  \/ DirectRequest
  \/ Handle
  \/ Task

SpecServer == InitServer /\ [][NextServer]_vars

(* ---------------- the analyzer over a store of several runs ---------------- *)

\* one upload of client.py as it ends in the store: the file, the draw of
\* the server and the round-trip time
Runs ==
  { [file |-> 1, draw |-> 99, elapsed |-> 500000],
    [file |-> 2, draw |-> 99, elapsed |-> 2500005],
    [file |-> 4, draw |-> 99, elapsed |-> 500000],
    [file |-> 5, draw |-> 0,  elapsed |-> 500000],
    [file |-> 5, draw |-> 99, elapsed |-> 500000],
    [file |-> 6, draw |-> 0,  elapsed |-> 500000],
    [file |-> 7, draw |-> 0,  elapsed |-> 2500005] }

\* the store after send_file has sent Catalog[run.file] and the server has
\* answered it
store_after(csv, run) ==
  LET f == Catalog[run.file]
      loc == read_and_compress(f.data, chunk_size)
      req == [params |-> [filename |-> f.name, checksum |-> loc.checksum,
                          compression_ratio |-> loc.compression_ratio],
              body |-> loc.compressed]
      h == upload_body(upload_start(NewHandler, req.params), req, run.draw).h
  IN record_response(csv, f.name, loc, h.result, run.elapsed)

\* the store is absent, or was emptied down to its header
InitAnalyzer ==
  /\ files = <<>>
  /\ cidx = 1
  /\ cpc = "done"
  /\ cloc = NoLoc
  /\ creq = 0
  /\ requests = <<>>
  /\ handler = <<>>
  /\ futures = <<>>
  /\ disk = [f \in FileNames |-> NoFile]
  /\ sd_csv \in { [exists |-> FALSE, lines |-> <<>>],
                  [exists |-> TRUE, lines |-> <<Header>>] }
  /\ analysis = NoAnalysis

\* a run of client.py appends the row of one upload
RecordRun ==
  /\ Len(SelectSeq(sd_csv.lines, LAMBDA l : l.kind = "data")) < MaxRows
  /\ \E run \in Runs : sd_csv' = store_after(sd_csv, run)
  /\ UNCHANGED <<files, cidx, cpc, cloc, creq, requests, handler, futures, disk, analysis>>

\* a run of analyze_sd.py
Analyze ==
  /\ analysis' = analyze_main(sd_csv)
  /\ UNCHANGED <<files, cidx, cpc, cloc, creq, requests, handler, futures, disk, sd_csv>>

NextAnalyzer ==
  \/ RecordRun
  \/ Analyze

SpecAnalyzer == InitAnalyzer /\ [][NextAnalyzer]_vars

(* ---------------- the codec under other chunk sizes ---------------- *)

\* values of the parameter chunk_size of read_and_compress
ChunkSizes == {64, 500, 4096, 1024 * 1024, 10 * 1024 * 1024}

\* the number of turns of the while-loop on size bytes
turns(size, cs) == (size + cs - 1) \div cs

\* client_files/ holds one file
InitCodec ==
  /\ files \in { <<Catalog[i]>> : i \in 1..Len(Catalog) }
  /\ cidx = 1
  /\ cpc = "loop"
  /\ cloc = NoLoc
  /\ creq = 0
  /\ requests = <<>>
  /\ handler = <<>>
  /\ futures = <<>>
  /\ disk = [f \in FileNames |-> NoFile]
  /\ sd_csv = [exists |-> FALSE, lines |-> <<>>]
  /\ analysis = NoAnalysis

\* send_file with read_and_compress reading chunk_size = cs bytes a turn
CodecCompress ==
  /\ cpc = "loop" /\ cidx <= Len(files)
  /\ \E cs \in ChunkSizes :
       /\ turns(len(files[cidx].data), cs) <= MaxChunks
       /\ cloc' = read_and_compress(files[cidx].data, cs)
  /\ cpc' = "compressed"
  /\ UNCHANGED <<files, cidx, creq, requests, handler, futures, disk, sd_csv, analysis>>

NextCodec ==
  \/ CodecCompress
  \/ ClientDone
  \/ ClientPost
  \/ ClientReceive
  \/ ClientFail
  \/ Handle
  \/ Task

SpecCodec == InitCodec /\ [][NextCodec]_vars

(* ---------------- properties ---------------- *)

Reqs == 1..Len(requests)

\* what zlib.decompress yields for the body of request r
Decomp(r) == decompress(requests[r].body).data

\* request r got an ok result
Ok(r) == handler[r].result.status = "ok"

\* the checksum sent with request r is the digest of the bytes its body holds
DigestOfBody(r) == requests[r].params.checksum = sha256_hex(Decomp(r))

\* the data rows of sd_data.csv, in order; client.py is the only caller under
\* Spec and stops at its first failed call, so row i belongs to request i
DataRows == SelectSeq(sd_csv.lines, LAMBDA l : l.kind = "data")

\* C1: in every upload that reaches status=ok the digest is taken after the
\* corruption step: server_checksum is the SHA-256 of the decompressed bytes
\* with the oracle's overwrite applied when it triggered, checksum_ok is true
\* iff that digest equals the checksum string of the request, and when the
\* overwrite changed the bytes the digest of the unchanged bytes is not used
C1_DigestAfterCorruption ==
  \A r \in Reqs :
    Ok(r) =>
      LET h == handler[r]
          verified == IF h.bug_triggered /\ len(Decomp(r)) >= CORRUPT_TAIL_BYTES
                      THEN ZeroTail(Decomp(r), CORRUPT_TAIL_BYTES)
                      ELSE Decomp(r)
      IN /\ h.result.server_checksum = sha256_hex(verified)
         /\ h.result.checksum_ok =
              (sha256_hex(verified) = requests[r].params.checksum)
         /\ (verified # Decomp(r) =>
               h.result.server_checksum # sha256_hex(Decomp(r)))

\* an ok upload whose bytes the oracle changed before they were verified
C1_Witness ==
  \E r \in Reqs :
    /\ Ok(r) /\ handler[r].bug_triggered
    /\ handler[r].original_data # Decomp(r)
    /\ DigestOfBody(r) /\ ~handler[r].result.checksum_ok

\* C2: when the upload of the client gets a result with status=error, the
\* client appends no row: sd_data.csv has as many rows after send_file as before
C2_NoRowOnError ==
  [][ (cpc = "posted" /\ creq \in Reqs /\ cpc' # "posted"
       /\ handler[creq].result.status = "error")
      => Len(sd_csv'.lines) = Len(sd_csv.lines) ]_vars

\* C3 as claimed: whenever the oracle triggers on at least 1024 bytes and the
\* checksum sent is the digest of the uncorrupted bytes, the last 1024 bytes
\* verified are zero and checksum_ok is false
C3_Claimed ==
  \A r \in Reqs :
    (Ok(r) /\ handler[r].bug_triggered /\ DigestOfBody(r)
     /\ len(Decomp(r)) >= CORRUPT_TAIL_BYTES)
    => /\ Tail_(handler[r].original_data, CORRUPT_TAIL_BYTES)
            = Zeros(CORRUPT_TAIL_BYTES)
       /\ ~handler[r].result.checksum_ok

\* C3 (amended): whenever the oracle triggers on at least 1024 bytes and the
\* checksum sent is the digest of the uncorrupted bytes, the last 1024 bytes
\* verified are zero, and checksum_ok is false exactly when the last 1024
\* bytes were not all zero already
C3_ZeroTailAndMismatch ==
  \A r \in Reqs :
    (Ok(r) /\ handler[r].bug_triggered /\ DigestOfBody(r)
     /\ len(Decomp(r)) >= CORRUPT_TAIL_BYTES)
    => /\ Tail_(handler[r].original_data, CORRUPT_TAIL_BYTES)
            = Zeros(CORRUPT_TAIL_BYTES)
       /\ len(handler[r].original_data) = len(Decomp(r))
       /\ handler[r].result.checksum_ok
            = (Tail_(Decomp(r), CORRUPT_TAIL_BYTES) = Zeros(CORRUPT_TAIL_BYTES))

\* the oracle triggered on a payload whose tail was not zero
C3_Witness ==
  \E r \in Reqs :
    /\ Ok(r) /\ handler[r].bug_triggered /\ DigestOfBody(r)
    /\ Tail_(Decomp(r), CORRUPT_TAIL_BYTES) # Zeros(CORRUPT_TAIL_BYTES)
    /\ ~handler[r].result.checksum_ok

\* C4: the oracle never triggers when the decompressed size is at most
\* 10 MiB: bug_triggered is false, no random number is drawn, and the bytes
\* verified and handed to the writer are the decompressed bytes
C4_NoTriggerAtOrBelowThreshold ==
  \A r \in Reqs :
    (Ok(r) /\ len(Decomp(r)) <= LARGE_FILE_THRESHOLD)
    => /\ ~handler[r].bug_triggered
       /\ ~handler[r].result.bug_triggered
       /\ ~handler[r].random_called
       /\ handler[r].original_data = Decomp(r)
       /\ futures[r].data = Decomp(r)

\* an ok upload of exactly 10 MiB
C4_Witness ==
  \E r \in Reqs :
    Ok(r) /\ handler[r].result.original_size = LARGE_FILE_THRESHOLD

\* C5 as claimed: in every ok result, and in the record derived from it,
\* bug_triggered is true iff the oracle changed at least one byte
C5_Claimed ==
  /\ \A r \in Reqs :
       Ok(r) => (handler[r].result.bug_triggered
                   = (handler[r].original_data # Decomp(r)))
  /\ \A i \in 1..Len(DataRows) :
       Ok(i) => (DataRows[i].cells.bug_triggered
                   = int(handler[i].original_data # Decomp(i)))

\* C5 (amended): in every ok result, and in the record derived from it,
\* bug_triggered is true whenever the oracle changed a byte; when it is true
\* the payload is large and its last 1024 bytes have been overwritten with
\* zeros, which changes no byte when they were zero already
C5_FlagFollowsTrigger ==
  /\ \A r \in Reqs :
       Ok(r) =>
         LET h == handler[r]
         IN /\ (h.original_data # Decomp(r) => h.result.bug_triggered)
            /\ (h.result.bug_triggered =>
                  /\ len(Decomp(r)) > LARGE_FILE_THRESHOLD
                  /\ h.original_data = ZeroTail(Decomp(r), CORRUPT_TAIL_BYTES)
                  /\ (h.original_data = Decomp(r)) =
                       (Tail_(Decomp(r), CORRUPT_TAIL_BYTES)
                          = Zeros(CORRUPT_TAIL_BYTES)))
  /\ \A i \in 1..Len(DataRows) :
       Ok(i) => (DataRows[i].cells.bug_triggered
                   = int(handler[i].result.bug_triggered))

\* a record with bug_triggered = 1 for an upload whose bytes were not changed
C5_Witness ==
  \E i \in 1..Len(DataRows) :
    /\ Ok(i) /\ DataRows[i].cells.bug_triggered = 1
    /\ handler[i].original_data = Decomp(i)

\* filename or checksum of request r is absent or empty
Missing(r) ==
  LET p == requests[r].params
  IN \/ "filename" \notin DOMAIN p
     \/ "checksum" \notin DOMAIN p
     \/ ("filename" \in DOMAIN p /\ p.filename = "")
     \/ ("checksum" \in DOMAIN p /\ p.checksum = EmptyStr)

\* C6: a request without filename or checksum (absent or empty) is answered
\* with status=error before the body is read: no body read, no
\* decompression, no random draw, no digest and no write is scheduled
C6_MissingMetadataStopsEarly ==
  \A r \in Reqs :
    (Missing(r) /\ handler[r].pc # "start")
    => /\ handler[r].pc = "returned"
       /\ handler[r].result.status = "error"
       /\ ~handler[r].body_read
       /\ ~handler[r].decompress_called
       /\ ~handler[r].random_called
       /\ ~handler[r].sha_called
       /\ futures[r].state = "none"

\* a request with an empty filename has been answered
C6_Witness ==
  \E r \in Reqs :
    /\ "filename" \in DOMAIN requests[r].params
    /\ requests[r].params.filename = ""
    /\ handler[r].result.status = "error"

\* C7: when decompression of the body fails the result is status=error with
\* a reason that carries the failure, and nothing later is done: no random
\* draw, no corruption, no digest comparison, no write scheduled
C7_DecompressionFailureStops ==
  \A r \in Reqs :
    (~Missing(r) /\ handler[r].pc = "returned"
     /\ ~decompress(requests[r].body).ok)
    => /\ handler[r].result.status = "error"
       /\ handler[r].result.reason
            = <<"decompression_failed", decompress(requests[r].body).err>>
       /\ handler[r].decompress_called
       /\ ~handler[r].random_called
       /\ ~handler[r].bug_triggered
       /\ ~handler[r].sha_called
       /\ futures[r].state = "none"

\* a request with a truncated body has been answered
C7_Witness ==
  \E r \in Reqs :
    /\ ~Missing(r) /\ handler[r].pc = "returned"
    /\ ~requests[r].body.trailer
    /\ handler[r].result.status = "error"

\* the client has read the response of request r
ClientReceived(r) == requests[r].src = "client" /\ r <= Len(DataRows)

\* C8: the ok result does not wait for the write: when the result exists the
\* write of the verified bytes has been submitted to the pool, and the
\* response can be read whatever the state of that write
C8_ResponseDoesNotWaitForWrite ==
  \A r \in Reqs :
    Ok(r) => /\ futures[r].state # "none"
             /\ futures[r].data = handler[r].original_data
             /\ futures[r].dest = requests[r].params.filename
             /\ response_ready(handler[r], futures[r])

\* the client has received status=ok while the write has not started and the
\* file is not on the server's disk
C8_Witness ==
  \E r \in Reqs :
    /\ ClientReceived(r) /\ Ok(r)
    /\ futures[r].state = "pending"
    /\ ~disk[requests[r].params.filename].exists

\* C9: a failure of the background write never surfaces: the ok result of a
\* request stays what it was when the handler returned, whether the write
\* later succeeds, fails or never runs
C9_ResultIndependentOfWrite ==
  [][ \A r \in Reqs :
        Ok(r) => handler'[r].result = handler[r].result ]_vars

\* an ok result whose write has failed
C9_Witness ==
  \E r \in Reqs : Ok(r) /\ futures[r].state = "failed"

\* C10: every row of the record store has failed = NOT checksum_ok
C10_FailedIsNotChecksumOk ==
  \A i \in 1..Len(DataRows) :
    /\ DataRows[i].cells.failed = 1 - DataRows[i].cells.checksum_ok
    /\ DataRows[i].cells.failed # DataRows[i].cells.checksum_ok

\* the store holds a row with failed = 1
C10_Witness ==
  \E i \in 1..Len(DataRows) :
    DataRows[i].cells.failed = 1 /\ DataRows[i].cells.checksum_ok = 0

\* C11: the record store is append-only with a single header: once it
\* exists it is one header row in the fixed column order followed by one
\* data row per call of append_sd_row, in call order, and a call leaves
\* every row written before it unchanged
C11_AppendOnlySingleHeader ==
  /\ [](sd_csv.exists =>
          /\ Len(sd_csv.lines) = cidx
          /\ sd_csv.lines[1].kind = "header"
          /\ sd_csv.lines[1].cells = Header.cells
          /\ \A i \in 2..Len(sd_csv.lines) :
               /\ sd_csv.lines[i].kind = "data"
               /\ sd_csv.lines[i].cells.file_name = files[i - 1].name)
  /\ [](~sd_csv.exists => (sd_csv.lines = <<>> /\ cidx = 1))
  /\ [][ /\ Len(sd_csv'.lines) >= Len(sd_csv.lines)
         /\ \A i \in 1..Len(sd_csv.lines) :
              sd_csv'.lines[i] = sd_csv.lines[i] ]_vars

\* the store after two calls: a header and two data rows
C11_Witness ==
  /\ Len(sd_csv.lines) = 3
  /\ sd_csv.lines[3].kind = "data"

\* the requests of client.py whose response it has not read
InFlight ==
  { r \in Reqs : requests[r].src = "client" /\ r > Len(DataRows) }

\* C12: the client is strictly sequential: when the compression of a file
\* begins or has been done, every earlier file has been compressed, its one
\* request has returned and its record has been appended; at no time are two
\* uploads of the client in flight
C12_StrictlySequential ==
  /\ Cardinality(InFlight) <= 1
  /\ (cpc = "posted" => InFlight = {creq})
  /\ (cpc \in {"loop", "compressed", "done"} =>
        /\ InFlight = {}
        /\ Len(requests) = cidx - 1
        /\ Len(DataRows) = cidx - 1
        /\ \A r \in Reqs :
             /\ handler[r].pc = "returned"
             /\ requests[r].params.filename = files[r].name)

\* the second file has been compressed, after the first was sent and logged
C12_Witness ==
  /\ cpc = "compressed" /\ cidx = 2
  /\ Len(DataRows) = 1 /\ handler[1].pc = "returned"

\* ---- analyze_sd.py ----

\* analyze_sd.py has run to its end or to an exception
Analyzed == analysis.pc # "idle"

\* the rows, by index, for which the predicate called name is true
TrueRows(rows, name) ==
  { i \in 1..Len(rows) :
      \E k \in 1..8 : /\ define_predicates(rows[i])[k].name = name
                      /\ define_predicates(rows[i])[k].value }

PredNames ==
  {"P1_is_large_file", "P2_bug_triggered", "P3_checksum_failed",
   "P4_high_latency", "P5_high_compression_ratio", "P6_very_large_file",
   "P7_small_file", "P8_medium_file"}

\* C13 (as claimed): a run of the analyzer on no records (store absent, or
\* present without data rows) ends without an exception, with the baseline
\* total_runs = 0, total_failed = 0, baseline_failure_rate = 0.0, an empty
\* ranking and no per-predicate computation
C13_EmptyInputNoException ==
  (Analyzed /\ analysis.rows = <<>>) =>
    /\ analysis.pc = "done"
    /\ analysis.baseline.total_runs = 0
    /\ analysis.baseline.total_failed = 0
    /\ analysis.baseline.baseline_failure_rate = Rat(0, 1)
    /\ analysis.ranked = <<>>
    /\ ~analysis.scanned

\* the spec's 4-record set: 2 large+failed, 1 large+passed, 1 small+passed
FourRecordSet(rows) ==
  /\ Len(rows) = 4
  /\ Cardinality({ i \in 1..4 : rows[i].is_large_file = 1 /\ rows[i].failed = 1 }) = 2
  /\ Cardinality({ i \in 1..4 : rows[i].is_large_file = 1 /\ rows[i].failed = 0 }) = 1
  /\ Cardinality({ i \in 1..4 : rows[i].is_large_file = 0 /\ rows[i].failed = 0
                                /\ rows[i].original_size < 100 * 1024 }) = 1

\* C14: on a non-empty record set every ranked predicate P has support = the
\* number of records where P is true, failed_P / passed_P = the number of
\* those that failed / passed, failure_P = failed_P / total_failed (0 when
\* total_failed = 0) and increase = failed_P / support - total_failed /
\* total_runs; on the 4-record set the baseline is 1/2 and P1 has support 3,
\* failed_P 2, failure_P 1, increase 1/6
C14_ScoresAreCounts ==
  (analysis.pc = "done" /\ analysis.rows # <<>>) =>
    LET rows == analysis.rows
        total_runs == Len(rows)
        total_failed == Cardinality({ i \in 1..Len(rows) : rows[i].failed = 1 })
    IN /\ analysis.baseline.total_runs = total_runs
       /\ analysis.baseline.total_failed = total_failed
       /\ \A n \in 1..Len(analysis.ranked) :
            LET e == analysis.ranked[n]
                T == TrueRows(rows, e.name)
                F == { i \in T : rows[i].failed = 1 }
            IN /\ e.support = Cardinality(T)
               /\ e.support > 0
               /\ e.failed_P = Cardinality(F)
               /\ e.passed_P = Cardinality(T \ F)
               /\ e.failure_P.den > 0
               /\ IF total_failed = 0 THEN e.failure_P.num = 0
                  ELSE e.failure_P.num * total_failed
                         = Cardinality(F) * e.failure_P.den
               /\ e.increase.den > 0
               /\ e.increase.num * (Cardinality(T) * total_runs)
                    = (Cardinality(F) * total_runs - total_failed * Cardinality(T))
                      * e.increase.den
       /\ FourRecordSet(rows) =>
            /\ RatEq(analysis.baseline.baseline_failure_rate, Rat(1, 2))
            /\ \E n \in 1..Len(analysis.ranked) :
                 LET e == analysis.ranked[n]
                 IN /\ e.name = "P1_is_large_file"
                    /\ e.support = 3 /\ e.failed_P = 2 /\ e.passed_P = 1
                    /\ RatEq(e.failure_P, Rat(1, 1))
                    /\ RatEq(e.increase, Rat(1, 6))

\* the analyzer has ranked the 4-record set
C14_Witness ==
  /\ analysis.pc = "done"
  /\ FourRecordSet(analysis.rows)
  /\ Len(analysis.ranked) > 1

\* C15: the ranked output is ordered descending by increase and, among equal
\* increase, descending by failure_P, and it holds exactly the predicates
\* that are true for at least one record, each once
C15_RankedDescendingSupportedOnly ==
  (analysis.pc = "done" /\ analysis.rows # <<>>) =>
    LET ranked == analysis.ranked
    IN /\ \A n \in 1..(Len(ranked) - 1) :
            LET a == ranked[n]
                b == ranked[n + 1]
            IN \/ RatLess(b.increase, a.increase)
               \/ /\ RatEq(a.increase, b.increase)
                  /\ ~RatLess(a.failure_P, b.failure_P)
       /\ { ranked[n].name : n \in 1..Len(ranked) }
            = { name \in PredNames : TrueRows(analysis.rows, name) # {} }
       /\ \A n, m \in 1..Len(ranked) : ranked[n].name = ranked[m].name => n = m

\* a ranking in which both keys decide: a strict drop of increase, a drop of
\* failure_P at equal increase, and a predicate that is never true
C15_Witness ==
  /\ analysis.pc = "done"
  /\ \E n \in 1..(Len(analysis.ranked) - 1) :
       RatLess(analysis.ranked[n + 1].increase, analysis.ranked[n].increase)
  /\ \E n \in 1..(Len(analysis.ranked) - 1) :
       /\ RatEq(analysis.ranked[n + 1].increase, analysis.ranked[n].increase)
       /\ RatLess(analysis.ranked[n + 1].failure_P, analysis.ranked[n].failure_P)
  /\ \E name \in PredNames : TrueRows(analysis.rows, name) = {}

\* the first record for which the predicate is true, and the position of the
\* predicate in define_predicates
FirstTrue(rows, name) ==
  CHOOSE i \in TrueRows(rows, name) : \A j \in TrueRows(rows, name) : i <= j

PredIndex(name) ==
  CHOOSE k \in 1..8 :
    define_predicates([is_large_file |-> 0, bug_triggered |-> 0,
                       checksum_ok |-> 1, latency_ms |-> 0,
                       compression_ratio |-> Rat(1, 1),
                       original_size |-> 0])[k].name = name

SameKey(a, b) == RatEq(a.increase, b.increase) /\ RatEq(a.failure_P, b.failure_P)

\* C16: predicates whose (increase, failure_P) pairs are equal are ranked in
\* the order in which they first became true while the records were scanned:
\* by first record, and within one record by position in define_predicates
C16_TiesKeepFirstTrueOrder ==
  (analysis.pc = "done" /\ analysis.rows # <<>>) =>
    \A n, m \in 1..Len(analysis.ranked) :
      LET a == analysis.ranked[n]
          b == analysis.ranked[m]
          fa == FirstTrue(analysis.rows, a.name)
          fb == FirstTrue(analysis.rows, b.name)
      IN (n < m /\ SameKey(a, b)) =>
           \/ fa < fb
           \/ (fa = fb /\ PredIndex(a.name) < PredIndex(b.name))

\* a tie that the scan order decides against the order of define_predicates
C16_Witness ==
  /\ analysis.pc = "done"
  /\ \E n, m \in 1..Len(analysis.ranked) :
       /\ n < m
       /\ SameKey(analysis.ranked[n], analysis.ranked[m])
       /\ PredIndex(analysis.ranked[n].name) > PredIndex(analysis.ranked[m].name)

\* ---- the codec ----

\* C17: the codec round-trips end to end: for every non-empty file and every
\* chunk size, the body made by read_and_compress decompresses on the server
\* to the bytes of the file and the checksum made chunk by chunk is the digest
\* of the whole file; an upload that arrives as sent and in which the oracle
\* does not trigger reports checksum_ok = true and the client's original_size
C17_CodecRoundTrips ==
  /\ (cpc \in {"compressed", "posted"} /\ files[cidx].data # <<>>) =>
       /\ decompress(cloc.compressed).ok
       /\ decompress(cloc.compressed).data = Norm(files[cidx].data)
       /\ cloc.checksum = sha256_hex(files[cidx].data)
       /\ cloc.original_size = len(files[cidx].data)
       /\ cloc.chunk_count > 0
  /\ \A r \in Reqs :
       (/\ requests[r].src = "client" /\ requests[r].intact
        /\ files[r].data # <<>>
        /\ handler[r].pc = "returned") =>
         /\ handler[r].result.status = "ok"
         /\ handler[r].result.original_size = len(files[r].data)
         /\ (cpc = "posted" /\ creq = r) =>
              handler[r].result.original_size = cloc.original_size
         /\ ~handler[r].bug_triggered =>
              /\ handler[r].original_data = Norm(files[r].data)
              /\ handler[r].result.checksum_ok

\* a file read in several chunks, the last one shorter, has been uploaded
\* and verified without the oracle triggering
C17_Witness ==
  /\ cpc = "posted"
  /\ cloc.chunk_count >= 2
  /\ cloc.original_size % 64 # 0
  /\ requests[creq].intact
  /\ handler[creq].pc = "returned"
  /\ handler[creq].result.status = "ok"
  /\ ~handler[creq].bug_triggered
  /\ handler[creq].result.checksum_ok

\* ---- the corruption oracle, byte by byte ----

\* payloads shorter than CORRUPT_TAIL_BYTES
ShortPayloads ==
  { <<>>, <<Run(1, 1)>>, <<Run(1, 500)>>, <<Run(1, 1023)>>,
    <<Run(1, 500), Run(0, 523)>> }

\* C18: when the oracle triggers the length of the payload is unchanged, its
\* last L = 1024 bytes are zero and every byte before them is unchanged, and
\* the result reports bug_triggered = true; the overwrite leaves a payload
\* shorter than L as it is
C18_OnlyTailOverwritten ==
  /\ \A r \in Reqs :
       handler[r].bug_triggered =>
         LET o == Decomp(r)
             d == handler[r].original_data
             n == len(o)
         IN /\ len(d) = n
            /\ n >= CORRUPT_TAIL_BYTES =>
                 /\ Norm(Take(d, n - CORRUPT_TAIL_BYTES))
                      = Norm(Take(o, n - CORRUPT_TAIL_BYTES))
                 /\ Norm(Tail_(d, CORRUPT_TAIL_BYTES)) = Zeros(CORRUPT_TAIL_BYTES)
            /\ n < CORRUPT_TAIL_BYTES => d = o
            /\ handler[r].pc = "returned" =>
                 /\ handler[r].result.status = "ok"
                 /\ handler[r].result.bug_triggered
                 /\ futures[r].data = d
  /\ \A s \in ShortPayloads : corrupt(s) = s

\* the oracle triggered and the overwrite changed the payload
C18_Witness ==
  \E r \in Reqs :
    /\ handler[r].bug_triggered
    /\ handler[r].pc = "returned"
    /\ handler[r].original_data # Decomp(r)
    /\ len(handler[r].original_data) = len(Decomp(r))

\* ---- failure of an upload call ----

\* C19: each file gets one request and no retry: no two requests of the
\* client carry the same file, a request follows only requests whose
\* responses were recorded, and once the upload call of a file has failed
\* the client sends nothing more (neither for that file nor for the
\* remaining ones) and appends no record
C19_OneRequestNoRetry ==
  /\ [](\A r1, r2 \in Reqs :
          requests[r1].params.filename = requests[r2].params.filename => r1 = r2)
  /\ [](Len(requests) <= Len(DataRows) + 1)
  /\ [](cpc = "crashed" =>
          /\ Len(requests) = cidx
          /\ Len(DataRows) = cidx - 1
          /\ requests[cidx].params.filename = files[cidx].name
          /\ \A i \in 1..Len(DataRows) :
               DataRows[i].cells.file_name # files[cidx].name)
  /\ [][ cpc = "crashed" =>
           /\ cpc' = "crashed"
           /\ cidx' = cidx
           /\ requests' = requests
           /\ sd_csv' = sd_csv ]_vars

\* the call for the first of two files failed after the server had answered
\* it: the second file is never sent
C19_Witness ==
  /\ cpc = "crashed"
  /\ cidx = 1 /\ Len(files) = 2
  /\ handler[1].pc = "returned"
  /\ Len(requests) = 1
  /\ ~sd_csv.exists

\* ---- two uploads under one file name ----

\* C20 (as claimed): when two uploads carrying the same filename have been
\* handled and both their writes have completed, the file on disk is, in
\* full, the verified payload of one of the two, never a mixture
C20_SameNameWritesDoNotMix ==
  \A r1, r2 \in Reqs :
    (/\ r1 # r2
     /\ futures[r1].state = "done" /\ futures[r2].state = "done"
     /\ futures[r1].dest = futures[r2].dest
     /\ \A r \in Reqs : futures[r].dest = futures[r1].dest => r \in {r1, r2})
    => /\ disk[futures[r1].dest].exists
       /\ Norm(disk[futures[r1].dest].data)
            \in {Norm(futures[r1].data), Norm(futures[r2].data)}

\* ---- the records and their predicates ----

\* C21: in every record of an upload whose body reached the server as the
\* client made it, failed = 1 implies bug_triggered = 1, and bug_triggered = 1
\* implies is_large_file = 1 and original_size > 10 MiB
C21_FailedOnlyByOracleOnLarge ==
  \A i \in 1..Len(DataRows) :
    requests[i].intact =>
      LET c == DataRows[i].cells
      IN /\ c.failed = 1 => c.bug_triggered = 1
         /\ c.bug_triggered = 1 =>
              (c.is_large_file = 1 /\ c.original_size > 10 * 1024 * 1024)

\* the record of an upload as sent, on which the oracle triggered and the
\* digest no longer matched
C21_Witness ==
  \E i \in 1..Len(DataRows) :
    /\ requests[i].intact
    /\ DataRows[i].cells.failed = 1
    /\ DataRows[i].cells.bug_triggered = 1
    /\ DataRows[i].cells.is_large_file = 1
    /\ DataRows[i].cells.original_size > 10 * 1024 * 1024

\* the predicate called name, evaluated on the record written as line
PredOf(line, name) ==
  LET row == dict_row(Header.cells, line)
  IN \E k \in 1..8 : /\ define_predicates(row)[k].name = name
                     /\ define_predicates(row)[k].value

\* C22 (as claimed): for every record the client appends exactly one of
\* P1_is_large_file, P7_small_file and P8_medium_file is true, and
\* P6_very_large_file implies P1_is_large_file
C22_SizePredicatesPartition ==
  \A i \in 1..Len(DataRows) :
    /\ Cardinality({ name \in {"P1_is_large_file", "P7_small_file",
                               "P8_medium_file"} :
                       PredOf(DataRows[i], name) }) = 1
    /\ PredOf(DataRows[i], "P6_very_large_file")
         => PredOf(DataRows[i], "P1_is_large_file")

\* the entry of P3_checksum_failed in a ranking
IsP3(e) == e.name = "P3_checksum_failed"

\* C23: on every record set with at least one failed record
\* P3_checksum_failed has support = failed_P = total_failed, passed_P = 0,
\* failure_P = 1 and increase = 1 - baseline_failure_rate, and no ranked
\* predicate has a strictly greater (increase, failure_P) pair
C23_ChecksumFailedIsTop ==
  (analysis.pc = "done" /\ analysis.rows # <<>>
   /\ \E i \in 1..Len(analysis.rows) : analysis.rows[i].failed = 1) =>
    LET ranked == analysis.ranked
        b == analysis.baseline
    IN /\ \E n \in 1..Len(ranked) : IsP3(ranked[n])
       /\ \A n \in 1..Len(ranked) :
            IsP3(ranked[n]) =>
              /\ ranked[n].support = b.total_failed
              /\ ranked[n].failed_P = b.total_failed
              /\ ranked[n].passed_P = 0
              /\ RatEq(ranked[n].failure_P, Rat(1, 1))
              /\ RatEq(ranked[n].increase,
                       RatSub(Rat(1, 1), b.baseline_failure_rate))
              /\ \A m \in 1..Len(ranked) :
                   /\ ~RatLess(ranked[n].increase, ranked[m].increase)
                   /\ RatEq(ranked[n].increase, ranked[m].increase)
                        => ~RatLess(ranked[n].failure_P, ranked[m].failure_P)

\* a ranking of failed and passed records in which P3_checksum_failed is
\* above a predicate of lower increase
C23_Witness ==
  /\ analysis.pc = "done"
  /\ analysis.baseline.total_failed >= 1
  /\ analysis.baseline.total_passed >= 1
  /\ \E n, m \in 1..Len(analysis.ranked) :
       /\ IsP3(analysis.ranked[n])
       /\ RatLess(analysis.ranked[m].increase, analysis.ranked[n].increase)

====
